---------------------------- MODULE Spec2Model ----------------------------
(***************************************************************************)
(* bioWatch: the MAX30102 acquisition-and-conditioning pipeline.           *)
(*                                                                         *)
(* The model follows the sources:                                          *)
(*   src/src/sensor.cpp     SensorManager (buffers, gain, gate, filters,   *)
(*                          estimator, HR stabiliser)                      *)
(*   src/unnamed/part_001   sensor.h of that SensorManager                 *)
(*   src/unnamed/part_007   constants.h of that build                      *)
(*   src/unnamed/part_011   main.cpp with the errorCount recovery loop     *)
(*   src/unnamed/part_000   main.cpp with consecutiveGoodCycles            *)
(*                                                                         *)
(* Arrays keep the code's 0-based indices: irBuffer is a function on       *)
(* 0..MY_BUFFER_SIZE-1.  Every SensorManager method is an operator from a  *)
(* program state (a record of all program variables) to the state after    *)
(* the call; a loop() iteration composes them in the order of the code.    *)
(***************************************************************************)
EXTENDS Integers, Sequences, FiniteSets, TLC

---------------------------------------------------------------------------
(* Sizes of the model.  The build has MY_BUFFER_SIZE = 50,                 *)
(* SLIDING_ADDITIONS = 12, SMA_WINDOW_SIZE = 5 and HR_HISTORY_SIZE = 8     *)
(* (part_007:23,24,45,46); the model keeps the code and shrinks the sizes. *)
MY_BUFFER_SIZE == 4

SLIDING_ADDITIONS == 2

SMA_WINDOW_SIZE == 2

HR_HISTORY_SIZE == 3

\* validCycleCount and hrIndex are unbounded ints in the code; the actions
\* that increase them stop at these values.
MaxValidCycles == 2

MaxHrIndex == 4

\* cycleCount is an unsigned long counting loop() iterations: the recovery
\* loop is followed for MaxCycles iterations, the hysteresis loop for
\* MaxGoodCycles.
MaxCycles == 11

MaxGoodCycles == 5

---------------------------------------------------------------------------
(* Program constants.                                                      *)
LED_BRIGHTNESS_DEFAULT == 60

CONSECUTIVE_VALID_REQUIRED == 1

MAX_HR_JUMP == 20

SATURATION_BOUND == 240000

OVERDRIVE_RANGE == 200000

IR_PULSATILE_MIN == 6000

RED_PULSATILE_MIN == 3000

IR_DC_MIN == 20000

LED_STEP_DOWN == 25

LED_STEP_UP == 30

LED_FLOOR == 20

LED_CEILING == 120

VALID_CYCLES_REQUIRED == 1

HR_MIN == 40

HR_MAX == 200

SPO2_MIN == 70

SPO2_MAX == 100

MAX_ERRORS == 8

SAMPLE_RATE == 100

SAMPLE_TIMEOUT_MS == 100
CYCLE_LOG_PERIOD == 10

---------------------------------------------------------------------------
(* Machine arithmetic.                                                     *)

\* uint8_t: the value of an int converted to unsigned char.
U8(x) == x % 256

\* int32_t and long: the MAX30102 delivers 18-bit samples, so every window
\* entry, sum, difference and filter product of the pipeline stays far inside
\* the 32-bit range and is computed here as the integer itself.

\* C++ integer division truncates toward zero (TLA+ \div floors).
TruncDiv(a, b) == IF a >= 0 THEN a \div b ELSE -((-a) \div b)

Abs(x) == IF x < 0 THEN -x ELSE x

Min2(a, b) == IF a < b THEN a ELSE b

Max2(a, b) == IF a > b THEN a ELSE b

Idx == 0..(MY_BUFFER_SIZE - 1)

---------------------------------------------------------------------------
(* State.  The program variables carry the names of the code.  The last    *)
(* group records what the external collaborators saw during the current    *)
(* operation: the calls made (in order), the reads the sample source       *)
(* answered, the gate's decisions, the windows handed to the vitals        *)
(* algorithm with its answers, and the results handed to the display;      *)
(* accepted lists the raw heart rates smoothHR has stored since the last   *)
(* successful init().                                                      *)
VARIABLES
    irBuffer, redBuffer,                   \* int32_t [MY_BUFFER_SIZE]
    currentLedBrightness,                  \* static uint8_t
    pulseAmplitudeRed, pulseAmplitudeIR,   \* emitter registers of the MAX30102
    validCycleCount, hrHistory, hrIndex,   \* SensorManager members
    heartRate, spo2, validHeartRate, validSpo2,
    firstRun, errorCount, consecutiveGoodCycles, cycleCount,
    samplesLeft,                           \* samples the source will still deliver
    polling,                               \* inside readSampleWithTimeout's loop
    elapsed,                               \* millis() - start of that read
    calls, reads, gate, algIn, shown, accepted

vars == << irBuffer, redBuffer, currentLedBrightness, pulseAmplitudeRed,
           pulseAmplitudeIR, validCycleCount, hrHistory, hrIndex, heartRate,
           spo2, validHeartRate, validSpo2, firstRun, errorCount,
           consecutiveGoodCycles, cycleCount, samplesLeft, polling, elapsed,
           calls, reads, gate, algIn, shown, accepted >>

\* The program state as one record, threaded through the operators below.
World ==
    [ irBuffer |-> irBuffer, redBuffer |-> redBuffer,
      currentLedBrightness |-> currentLedBrightness,
      pulseAmplitudeRed |-> pulseAmplitudeRed,
      pulseAmplitudeIR |-> pulseAmplitudeIR,
      validCycleCount |-> validCycleCount, hrHistory |-> hrHistory,
      hrIndex |-> hrIndex, heartRate |-> heartRate, spo2 |-> spo2,
      validHeartRate |-> validHeartRate, validSpo2 |-> validSpo2,
      firstRun |-> firstRun, errorCount |-> errorCount,
      consecutiveGoodCycles |-> consecutiveGoodCycles,
      cycleCount |-> cycleCount, samplesLeft |-> samplesLeft,
      polling |-> polling, elapsed |-> elapsed,
      calls |-> calls, reads |-> reads, gate |-> gate, algIn |-> algIn,
      shown |-> shown, accepted |-> accepted ]

Install(w) ==
    /\ irBuffer' = w.irBuffer
    /\ redBuffer' = w.redBuffer
    /\ currentLedBrightness' = w.currentLedBrightness
    /\ pulseAmplitudeRed' = w.pulseAmplitudeRed
    /\ pulseAmplitudeIR' = w.pulseAmplitudeIR
    /\ validCycleCount' = w.validCycleCount
    /\ hrHistory' = w.hrHistory
    /\ hrIndex' = w.hrIndex
    /\ heartRate' = w.heartRate
    /\ spo2' = w.spo2
    /\ validHeartRate' = w.validHeartRate
    /\ validSpo2' = w.validSpo2
    /\ firstRun' = w.firstRun
    /\ errorCount' = w.errorCount
    /\ consecutiveGoodCycles' = w.consecutiveGoodCycles
    /\ cycleCount' = w.cycleCount
    /\ samplesLeft' = w.samplesLeft
    /\ polling' = w.polling
    /\ elapsed' = w.elapsed
    /\ calls' = w.calls
    /\ reads' = w.reads
    /\ gate' = w.gate
    /\ algIn' = w.algIn
    /\ shown' = w.shown
    /\ accepted' = w.accepted

\* A new operation starts: the observations of the previous one are dropped.
Begin(w) ==
    [w EXCEPT !.calls = << >>, !.reads = << >>, !.gate = << >>,
              !.algIn = << >>, !.shown = << >>]

Called(w, name) == [w EXCEPT !.calls = Append(@, name)]

---------------------------------------------------------------------------
(* The sample source.  One read answers a (red, ir) pair or times out.     *)
Sample(r, i) == [ok |-> TRUE, red |-> r, ir |-> i]

TimedOut == [ok |-> FALSE, red |-> 0, ir |-> 0]

\* The answers to n consecutive reads of which the first m deliver a sample;
\* once a read of a call has timed out the call performs no further read, so
\* the answers after it are immaterial and fixed to time-outs.
ReadSeqs(S, n, m) ==
    { [k \in 1..n |-> IF k <= m THEN f[k] ELSE TimedOut] : f \in [1..m -> S] }

\* The answers a source with `left` samples to deliver can give.
Answers(S, n, left) ==
    UNION { ReadSeqs(S, n, m) : m \in 0..Min2(n, left) }

\* readSampleWithTimeout(red, ir): the polling loop ends with a sample stored
\* through the two references, or with false once SAMPLE_TIMEOUT_MS elapsed.
\* k is the code index the references point at.
\* (the two references swapped)
readSampleSwapped(w, k, r) ==
    IF r.ok
    THEN [w |-> [w EXCEPT !.redBuffer[k] = r.ir, !.irBuffer[k] = r.red,
                          !.reads = Append(@, r),
                          !.samplesLeft = @ - 1],
          ret |-> TRUE]
    ELSE [w |-> [w EXCEPT !.reads = Append(@, r)], ret |-> FALSE]

\* (zeros stored through the references when the read times out)
readSampleClearsOnTimeout(w, k, r) ==
    IF r.ok
    THEN [w |-> [w EXCEPT !.redBuffer[k] = r.red, !.irBuffer[k] = r.ir,
                          !.reads = Append(@, r),
                          !.samplesLeft = @ - 1],
          ret |-> TRUE]
    ELSE [w |-> [w EXCEPT !.redBuffer[k] = 0, !.irBuffer[k] = 0,
                          !.reads = Append(@, r)],
          ret |-> FALSE]

readSampleWithTimeout(w, k, r) ==
    IF r.ok
    THEN [w |-> [w EXCEPT !.redBuffer[k] = r.red, !.irBuffer[k] = r.ir,
                          !.reads = Append(@, r),
                          !.samplesLeft = @ - 1],
          ret |-> TRUE]
    ELSE [w |-> [w EXCEPT !.reads = Append(@, r)], ret |-> FALSE]

---------------------------------------------------------------------------
(* SensorManager::fillInitialBuffer                                        *)
RECURSIVE FillLoop(_, _, _)
FillLoop(w, rd, i) ==
    IF i >= MY_BUFFER_SIZE
    THEN [w |-> w, ret |-> TRUE]
    ELSE LET r == readSampleWithTimeout(w, i, rd[i + 1])
         IN  IF ~r.ret THEN [w |-> r.w, ret |-> FALSE]
                       ELSE FillLoop(r.w, rd, i + 1)

\* (the outcome of the reads not passed on)
fillInitialBufferReportsSuccess(w, rd) ==
    [w   |-> FillLoop(Called(w, "fillInitialBuffer"), rd, 0).w,
     ret |-> TRUE]

\* Lines 68-80.
fillInitialBuffer(w, rd) == FillLoop(Called(w, "fillInitialBuffer"), rd, 0)

(* SensorManager::updateSlidingWindow                                      *)
\* memmove(buf, buf + 1, (MY_BUFFER_SIZE - 1) * sizeof(int32_t)): entries
\* 1..N-1 move to 0..N-2, the last entry keeps its value.
\* (a move of one element too few)
ShiftLeftShort(buf) ==
    [k \in Idx |-> IF k < MY_BUFFER_SIZE - 2 THEN buf[k + 1] ELSE buf[k]]

ShiftLeft(buf) ==
    [k \in Idx |-> IF k < MY_BUFFER_SIZE - 1 THEN buf[k + 1] ELSE buf[k]]

\* (only the red channel shifted)
RECURSIVE SlideLoopRedOnly(_, _, _)
SlideLoopRedOnly(w, rd, i) ==
    IF i >= SLIDING_ADDITIONS
    THEN [w |-> w, ret |-> TRUE]
    ELSE LET sh == [w EXCEPT !.redBuffer = ShiftLeft(@)]
             r  == readSampleWithTimeout(sh, MY_BUFFER_SIZE - 1, rd[i + 1])
         IN  IF ~r.ret THEN [w |-> r.w, ret |-> FALSE]
                       ELSE SlideLoopRedOnly(r.w, rd, i + 1)

\* Lines 83-92.
RECURSIVE SlideLoop(_, _, _)
SlideLoop(w, rd, i) ==
    IF i >= SLIDING_ADDITIONS
    THEN [w |-> w, ret |-> TRUE]
    ELSE LET sh == [w EXCEPT !.redBuffer = ShiftLeft(@),
                             !.irBuffer = ShiftLeft(@)]
             r  == readSampleWithTimeout(sh, MY_BUFFER_SIZE - 1, rd[i + 1])
         IN  IF ~r.ret THEN [w |-> r.w, ret |-> FALSE]
                       ELSE SlideLoop(r.w, rd, i + 1)

updateSlidingWindow(w, rd) == SlideLoop(Called(w, "updateSlidingWindow"), rd, 0)

---------------------------------------------------------------------------
(* SensorManager::checkSignalQuality                                       *)
\* The scan of lines 100-108: start from entry 0, visit 1..N-1.
RECURSIVE ScanMin(_, _, _)
ScanMin(buf, i, m) ==
    IF i >= MY_BUFFER_SIZE THEN m
    ELSE ScanMin(buf, i + 1, IF buf[i] < m THEN buf[i] ELSE m)

RECURSIVE ScanMax(_, _, _)
ScanMax(buf, i, m) ==
    IF i >= MY_BUFFER_SIZE THEN m
    ELSE ScanMax(buf, i + 1, IF buf[i] > m THEN buf[i] ELSE m)

\* (the scan started one entry late: entry 0 is never looked at)
ExtremaFromSecond(w) ==
    [minIR  |-> ScanMin(w.irBuffer, 2, w.irBuffer[1]),
     maxIR  |-> ScanMax(w.irBuffer, 2, w.irBuffer[1]),
     minRed |-> ScanMin(w.redBuffer, 2, w.redBuffer[1]),
     maxRed |-> ScanMax(w.redBuffer, 2, w.redBuffer[1])]

Extrema(w) ==
    [minIR  |-> ScanMin(w.irBuffer, 1, w.irBuffer[0]),
     maxIR  |-> ScanMax(w.irBuffer, 1, w.irBuffer[0]),
     minRed |-> ScanMin(w.redBuffer, 1, w.redBuffer[0]),
     maxRed |-> ScanMax(w.redBuffer, 1, w.redBuffer[0])]

\* particleSensor.setPulseAmplitudeRed / setPulseAmplitudeIR
WriteEmitters(w) ==
    [w EXCEPT !.pulseAmplitudeRed = w.currentLedBrightness,
              !.pulseAmplitudeIR = w.currentLedBrightness,
              !.calls = @ \o <<"setPulseAmplitudeRed", "setPulseAmplitudeIR">>]

\* currentLedBrightness -= 25; if (currentLedBrightness < 20) ... = 20;
\* the subtraction is stored back into the uint8_t before the comparison.
LedDown(led) ==
    LET d == U8(led - LED_STEP_DOWN)
    IN  IF d < LED_FLOOR THEN LED_FLOOR ELSE d

\* currentLedBrightness += 30; if (currentLedBrightness > 120) ... = 120;
LedUp(led) ==
    LET u == U8(led + LED_STEP_UP)
    IN  IF u > LED_CEILING THEN LED_CEILING ELSE u

\* Lines 121-133: the auto-LED branch.
AdjustLed(w, e) ==
    LET irPulsatile  == (e.maxIR - e.minIR)
        redPulsatile == (e.maxRed - e.minRed)
    IN  IF e.maxIR > SATURATION_BOUND \/ e.maxRed > SATURATION_BOUND
           \/ irPulsatile > OVERDRIVE_RANGE
        THEN WriteEmitters([w EXCEPT !.currentLedBrightness = LedDown(@)])
        ELSE IF irPulsatile < IR_PULSATILE_MIN \/ redPulsatile < RED_PULSATILE_MIN
                \/ e.minIR < IR_DC_MIN
        THEN WriteEmitters([w EXCEPT !.currentLedBrightness = LedUp(@)])
        ELSE w

\* (the gate of the earlier build: the red channel is not looked at)
GoodInfraredOnly(e) ==
    /\ e.maxIR < SATURATION_BOUND
    /\ (e.maxIR - e.minIR) >= IR_PULSATILE_MIN
    /\ e.minIR >= IR_DC_MIN

\* Lines 135-137: bool good.
Good(e) ==
    /\ e.maxIR < SATURATION_BOUND
    /\ e.maxRed < SATURATION_BOUND
    /\ (e.maxIR - e.minIR) >= IR_PULSATILE_MIN
    /\ (e.maxRed - e.minRed) >= RED_PULSATILE_MIN
    /\ e.minIR >= IR_DC_MIN

\* Line 139: validCycleCount = good ? validCycleCount + 1 : 0;
CountValid(n, good) == IF good THEN n + 1 ELSE 0

\* (a window judged bad also empties the HR history)
checkSignalQualityForgets(w) ==
    LET e  == Extrema(w)
        w1 == AdjustLed(Called(w, "checkSignalQuality"), e)
        g  == Good(e)
        w2 == [w1 EXCEPT !.validCycleCount = CountValid(@, g),
                         !.gate = Append(@, g),
                         !.hrIndex = IF g THEN @ ELSE 0]
    IN  [w |-> w2, ret |-> (w2.validCycleCount >= VALID_CYCLES_REQUIRED)]

checkSignalQuality(w) ==
    LET e  == Extrema(w)
        w1 == AdjustLed(Called(w, "checkSignalQuality"), e)
        g  == Good(e)
        w2 == [w1 EXCEPT !.validCycleCount = CountValid(@, g),
                         !.gate = Append(@, g)]
    IN  [w |-> w2, ret |-> (w2.validCycleCount >= VALID_CYCLES_REQUIRED)]

---------------------------------------------------------------------------
(* SensorManager::checkSignalQuality of the earlier sensor.cpp (part_005,  *)
(* lines 97-119): infrared channel only, two good cycles for trust.        *)
checkSignalQualityTwoCycles(w) ==
    LET minIR     == ScanMin(w.irBuffer, 1, w.irBuffer[0])
        maxIR     == ScanMax(w.irBuffer, 1, w.irBuffer[0])
        pulsatile == maxIR - minIR
        c  == Called(w, "checkSignalQuality")
        w1 == IF minIR < 30000 /\ c.currentLedBrightness < 255
              THEN WriteEmitters([c EXCEPT !.currentLedBrightness =
                                              Min2(255, @ + 40)])
              ELSE IF minIR > 180000 /\ c.currentLedBrightness > 60
              THEN WriteEmitters([c EXCEPT !.currentLedBrightness =
                                              Max2(40, @ - 30)])
              ELSE c
        g  == (minIR >= 40000) /\ (pulsatile >= 8000)
        w2 == [w1 EXCEPT !.validCycleCount = CountValid(@, g),
                         !.gate = Append(@, g)]
    IN  [w |-> w2, ret |-> (w2.validCycleCount >= 2)]

---------------------------------------------------------------------------
(* SensorManager::applySmoothingToBuffers                                  *)
RECURSIVE SumRange(_, _, _)
SumRange(buf, lo, hi) ==
    IF lo > hi THEN 0 ELSE (buf[lo] + SumRange(buf, lo + 1, hi))

\* (the means written back at once, so later means read smoothed values)
RECURSIVE SmoothInPlaceLoop(_, _)
SmoothInPlaceLoop(buf, i) ==
    IF i >= MY_BUFFER_SIZE THEN buf
    ELSE LET start == Max2(0, i - SMA_WINDOW_SIZE + 1)
             count == i - start + 1
         IN  SmoothInPlaceLoop(
                 [buf EXCEPT ![i] = TruncDiv(SumRange(buf, start, i), count)],
                 i + 1)

SmoothedInPlace(buf) == SmoothInPlaceLoop(buf, 0)

\* Lines 174-185 fill tempIR / tempRed from the untouched buffers; the memcpy
\* of lines 187-188 stores them.
Smoothed(buf) ==
    [i \in Idx |->
        LET start == Max2(0, i - SMA_WINDOW_SIZE + 1)
            count == i - start + 1
        IN  TruncDiv(SumRange(buf, start, i), count)]

applySmoothingToBuffers(w) ==
    [Called(w, "applySmoothingToBuffers")
        EXCEPT !.irBuffer = Smoothed(@), !.redBuffer = Smoothed(@)]

(* SensorManager::bandPassFilterBuffers                                    *)
\* alpha = 0.95 and beta = 0.1 are floats and hp, lp are int32_t: every
\* assignment truncates toward zero.  The products are computed here in exact
\* arithmetic (95/100, 10/100, 90/100).  The loop reads irBuffer[i-1] after
\* iteration i-1 has stored its output there.
RECURSIVE BandPassLoop(_, _, _, _)
BandPassLoop(buf, i, hp, lp) ==
    IF i >= MY_BUFFER_SIZE THEN buf
    ELSE LET hp1 == TruncDiv(95 * hp + 95 * (buf[i] - buf[i - 1]), 100)
             lp1 == TruncDiv(10 * hp1 + 90 * lp, 100)
         IN  BandPassLoop([buf EXCEPT ![i] = lp1], i + 1, hp1, lp1)

BandPassed(buf) == BandPassLoop(buf, 1, buf[0], buf[0])

bandPassFilterBuffers(w) ==
    [Called(w, "bandPassFilterBuffers")
        EXCEPT !.irBuffer = BandPassed(@), !.redBuffer = BandPassed(@)]

---------------------------------------------------------------------------
(* SensorManager::smoothHR                                                 *)
\* (the candidate is stored before the jump test rejects it)
smoothHRStoresFirst(w) ==
    LET K    == HR_HISTORY_SIZE
        hist == [w.hrHistory EXCEPT ![w.hrIndex % K] = w.heartRate]
    IN  IF w.hrIndex > 0
           /\ Abs(w.heartRate - w.hrHistory[(w.hrIndex - 1) % K]) > MAX_HR_JUMP
        THEN [w EXCEPT !.validHeartRate = FALSE, !.hrHistory = hist]
        ELSE LET index == w.hrIndex + 1
                 count == Min2(index, K)
                 sum   == SumRange(hist, 0, count - 1)
             IN  [w EXCEPT !.hrHistory = hist, !.hrIndex = index,
                           !.heartRate = TruncDiv(sum, count),
                           !.accepted = Append(@, w.heartRate)]

\* (the sum is divided by the capacity instead of the number of entries)
smoothHRDividesByCapacity(w) ==
    LET K == HR_HISTORY_SIZE
    IN  IF w.hrIndex > 0
           /\ Abs(w.heartRate - w.hrHistory[(w.hrIndex - 1) % K]) > MAX_HR_JUMP
        THEN [w EXCEPT !.validHeartRate = FALSE]
        ELSE LET hist  == [w.hrHistory EXCEPT ![w.hrIndex % K] = w.heartRate]
                 index == w.hrIndex + 1
                 count == Min2(index, K)
                 sum   == SumRange(hist, 0, count - 1)
             IN  [w EXCEPT !.hrHistory = hist, !.hrIndex = index,
                           !.heartRate = TruncDiv(sum, K),
                           !.accepted = Append(@, w.heartRate)]

\* (the cursor moved on by a rejected candidate as well)
smoothHRAdvancesOnReject(w) ==
    LET K == HR_HISTORY_SIZE
    IN  IF w.hrIndex > 0
           /\ Abs(w.heartRate - w.hrHistory[(w.hrIndex - 1) % K]) > MAX_HR_JUMP
        THEN [w EXCEPT !.validHeartRate = FALSE, !.hrIndex = @ + 1]
        ELSE LET hist  == [w.hrHistory EXCEPT ![w.hrIndex % K] = w.heartRate]
                 index == w.hrIndex + 1
                 count == Min2(index, K)
                 sum   == SumRange(hist, 0, count - 1)
             IN  [w EXCEPT !.hrHistory = hist, !.hrIndex = index,
                           !.heartRate = TruncDiv(sum, count),
                           !.accepted = Append(@, w.heartRate)]

\* Lines 234-253.
smoothHR(w) ==
    LET K == HR_HISTORY_SIZE
    IN  IF w.hrIndex > 0
           /\ Abs(w.heartRate - w.hrHistory[(w.hrIndex - 1) % K]) > MAX_HR_JUMP
        THEN [w EXCEPT !.validHeartRate = FALSE]
        ELSE LET hist  == [w.hrHistory EXCEPT ![w.hrIndex % K] = w.heartRate]
                 index == w.hrIndex + 1
                 count == Min2(index, K)
                 sum   == SumRange(hist, 0, count - 1)
             IN  [w EXCEPT !.hrHistory = hist, !.hrIndex = index,
                           !.heartRate = TruncDiv(sum, count),
                           !.accepted = Append(@, w.heartRate)]

(* SensorManager::calculateHRSpO2                                          *)
\* long mean: the sum over the window, then /= MY_BUFFER_SIZE.
Mean(buf) == TruncDiv(SumRange(buf, 0, MY_BUFFER_SIZE - 1), MY_BUFFER_SIZE)

RemoveDC(buf, mean) == [i \in Idx |-> (buf[i] - mean)]

\* (the restoration left out: the window stays AC-coupled)
RestoreDCSkipped(buf, mean) == buf

RestoreDC(buf, mean) == [i \in Idx |-> (buf[i] + mean)]

\* (the algorithm's validity flags taken as they are, no range test)
PostProcessTrustsFlags(w, alg) ==
    LET w1 == IF alg.valid_hr
              THEN smoothHR([w EXCEPT !.validHeartRate = TRUE,
                                      !.heartRate = alg.n_hr])
              ELSE [w EXCEPT !.validHeartRate = FALSE]
    IN  [w1 EXCEPT !.validSpo2 = alg.valid_spo2,
                   !.spo2 = IF alg.valid_spo2 THEN alg.n_spo2 ELSE 0]

\* Lines 224-231 on the algorithm's answer alg.
PostProcess(w, alg) ==
    LET vhr == alg.valid_hr /\ alg.n_hr >= HR_MIN /\ alg.n_hr <= HR_MAX
        w1  == IF vhr
               THEN smoothHR([w EXCEPT !.validHeartRate = TRUE,
                                       !.heartRate = alg.n_hr])
               ELSE [w EXCEPT !.validHeartRate = FALSE]
        vs  == alg.valid_spo2 /\ alg.n_spo2 >= SPO2_MIN /\ alg.n_spo2 <= SPO2_MAX
    IN  [w1 EXCEPT !.validSpo2 = vs, !.spo2 = IF vs THEN alg.n_spo2 ELSE 0]

\* maxim_heart_rate_and_oxygen_saturation is an external library: it reads
\* the two windows and answers alg; it does not write to its inputs.
calculateHRSpO2(w, alg) ==
    LET ir_mean  == Mean(w.irBuffer)
        red_mean == Mean(w.redBuffer)
        ac == [Called(w, "calculateHRSpO2")
                  EXCEPT !.irBuffer = RemoveDC(@, ir_mean),
                         !.redBuffer = RemoveDC(@, red_mean)]
        run == [ac EXCEPT !.algIn = Append(@, [ir |-> ac.irBuffer,
                                               red |-> ac.redBuffer,
                                               ans |-> alg])]
        dc == [run EXCEPT !.irBuffer = RestoreDC(@, ir_mean),
                          !.redBuffer = RestoreDC(@, red_mean)]
    IN  PostProcess(dc, alg)

(* SensorManager::simpleHRCalc                                             *)
\* The loop of lines 258-262: i runs from 2 to MY_BUFFER_SIZE - 2.
RECURSIVE CountCrossings(_, _, _)
CountCrossings(buf, i, crossings) ==
    IF i >= MY_BUFFER_SIZE - 1 THEN crossings
    ELSE CountCrossings(buf, i + 1,
            IF buf[i - 1] < buf[i] /\ buf[i] > buf[i + 1]
            THEN crossings + 1 ELSE crossings)

\* (the result marked valid only inside the plausibility bounds)
simpleHRCalcRanged(w) ==
    LET crossings == CountCrossings(w.irBuffer, 2, 0)
        hr == crossings * TruncDiv(60 * SAMPLE_RATE, MY_BUFFER_SIZE)
    IN  [Called(w, "simpleHRCalc")
            EXCEPT !.heartRate = hr,
                   !.validHeartRate = (hr >= HR_MIN /\ hr <= HR_MAX)]

\* heartRate = crossings * (60 * SAMPLE_RATE / MY_BUFFER_SIZE);
\* validHeartRate = 1;
simpleHRCalc(w) ==
    LET crossings == CountCrossings(w.irBuffer, 2, 0)
    IN  [Called(w, "simpleHRCalc")
            EXCEPT !.heartRate =
                       crossings * TruncDiv(60 * SAMPLE_RATE, MY_BUFFER_SIZE),
                   !.validHeartRate = TRUE]

---------------------------------------------------------------------------
(* SensorManager::init and SensorManager::softReset                        *)
\* beginOk: particleSensor.begin found the device on the bus.
\* (the level of setup() left in the emitters: lines 42-43 missing)
initLeavesDefault(w, beginOk) ==
    IF ~beginOk
    THEN [w |-> Called(w, "init"), ret |-> FALSE]
    ELSE LET su == [Called(w, "init")
                       EXCEPT !.pulseAmplitudeRed = LED_BRIGHTNESS_DEFAULT,
                              !.pulseAmplitudeIR = LED_BRIGHTNESS_DEFAULT]
         IN  [w |-> [su EXCEPT !.validCycleCount = 0, !.hrIndex = 0,
                               !.hrHistory = [i \in 0..(HR_HISTORY_SIZE - 1) |-> 0],
                               !.accepted = << >>],
              ret |-> TRUE]

\* Lines 20-52.
init(w, beginOk) ==
    IF ~beginOk
    THEN [w |-> Called(w, "init"), ret |-> FALSE]
    ELSE LET su == [Called(w, "init")
                       EXCEPT !.pulseAmplitudeRed = LED_BRIGHTNESS_DEFAULT,
                              !.pulseAmplitudeIR = LED_BRIGHTNESS_DEFAULT]
             w1 == WriteEmitters(su)
         IN  [w |-> [w1 EXCEPT !.validCycleCount = 0, !.hrIndex = 0,
                               !.hrHistory = [i \in 0..(HR_HISTORY_SIZE - 1) |-> 0],
                               !.accepted = << >>],
              ret |-> TRUE]

\* particleSensor.softReset() returns the device registers to power-on
\* values (emitters off); init() follows; validCycleCount = 0.
softReset(w, beginOk) ==
    LET hw == [Called(w, "softReset") EXCEPT !.pulseAmplitudeRed = 0,
                                             !.pulseAmplitudeIR = 0]
        i  == init(hw, beginOk)
    IN  [i.w EXCEPT !.validCycleCount = 0]

\* display.updateMetrics(hr, spo2, validHR, validSpO2)
updateMetrics(w, hr, sp, vhr, vsp) ==
    [Called(w, "updateMetrics")
        EXCEPT !.shown = Append(@, [heartRate |-> hr, spo2 |-> sp,
                                    validHeartRate |-> vhr, validSpo2 |-> vsp])]

feedWatchdog(w) == Called(w, "feedWatchdog")

---------------------------------------------------------------------------
(* The state after construction and setup(): the globals are zero, the     *)
(* static brightness is LED_BRIGHTNESS_DEFAULT, setup() has run init()     *)
(* successfully (it halts otherwise) and set the loop's variables.         *)
Booted(budget) ==
    /\ irBuffer = [i \in Idx |-> 0]
    /\ redBuffer = [i \in Idx |-> 0]
    /\ currentLedBrightness = LED_BRIGHTNESS_DEFAULT
    /\ pulseAmplitudeRed = LED_BRIGHTNESS_DEFAULT
    /\ pulseAmplitudeIR = LED_BRIGHTNESS_DEFAULT
    /\ validCycleCount = 0
    /\ hrHistory = [i \in 0..(HR_HISTORY_SIZE - 1) |-> 0]
    /\ hrIndex = 0
    /\ heartRate = 0
    /\ spo2 = 0
    /\ validHeartRate = FALSE
    /\ validSpo2 = FALSE
    /\ firstRun = TRUE
    /\ errorCount = 0
    /\ consecutiveGoodCycles = 0
    /\ cycleCount = 0
    /\ samplesLeft = budget
    /\ polling = FALSE
    /\ elapsed = 0
    /\ calls = << >>
    /\ reads = << >>
    /\ gate = << >>
    /\ algIn = << >>
    /\ shown = << >>
    /\ accepted = << >>

---------------------------------------------------------------------------
(* The buffer methods as the loops call them: the first acquisition is a   *)
(* fill and clears firstRun, the later ones are slides (part_011:105-111,  *)
(* main.cpp:30-33).  S is the set of samples the source may deliver.       *)
Fill(S) ==
    /\ firstRun
    /\ \E rd \in Answers(S, MY_BUFFER_SIZE, samplesLeft) :
          Install([fillInitialBuffer(Begin(World), rd).w EXCEPT !.firstRun = FALSE])

Slide(S) ==
    /\ ~firstRun
    /\ \E rd \in Answers(S, SLIDING_ADDITIONS, samplesLeft) :
          Install(updateSlidingWindow(Begin(World), rd).w)

CheckQuality ==
    /\ validCycleCount < MaxValidCycles
    /\ Install(checkSignalQuality(Begin(World)).w)

---------------------------------------------------------------------------
(* Specification Spec: the sliding buffer.  The source delivers at most    *)
(* one full window and one full slide of samples, in any interleaving with *)
(* time-outs.                                                              *)
BufferSamples ==
    { Sample(90001, 100001), Sample(90002, 100002), Sample(90003, 100003) }

Init == Booted(MY_BUFFER_SIZE + SLIDING_ADDITIONS)

BufferFill == Fill(BufferSamples)

BufferSlide == Slide(BufferSamples)

Next == BufferFill \/ BufferSlide

Spec == Init /\ [][Next]_vars

---------------------------------------------------------------------------
(* Specification SpecGate: the quality gate and the emitter gain on every  *)
(* window over GateSamples, checked any number of times.                   *)
GateSamples ==
    { Sample(100000, 100000), Sample(103000, 106000), Sample(240000, 106000),
      Sample(250000, 250000), Sample(103000, 19999) }

InitGate == Booted(MY_BUFFER_SIZE)

GateFill == Fill(GateSamples)

NextGate == GateFill \/ CheckQuality

SpecGate == InitGate /\ [][NextGate]_vars

---------------------------------------------------------------------------
(* Specification SpecGain: the emitter gain on windows whose two channels  *)
(* differ: red saturated or flat under a sound infrared channel.           *)
GainSamples ==
    { Sample(100000, 100000), Sample(103000, 106000), Sample(250000, 106000),
      Sample(100000, 106000) }

GainFill == Fill(GainSamples)

NextGain == GainFill \/ CheckQuality

SpecGain == InitGate /\ [][NextGain]_vars

---------------------------------------------------------------------------
(* Specification SpecDecision: the gate on windows that share their        *)
(* extrema and differ inside, at every drive level and counter value the   *)
(* checks lead to.                                                         *)
DecisionSamples ==
    { Sample(100000, 100000), Sample(101000, 103000), Sample(103000, 106000) }

DecisionFill == Fill(DecisionSamples)

NextDecision == DecisionFill \/ CheckQuality

SpecDecision == InitGate /\ [][NextDecision]_vars

---------------------------------------------------------------------------
(* Specification SpecFallback: the peak-counting estimator on every window *)
(* a fill and a slide can leave.                                           *)
FallbackSamples ==
    { Sample(100000, 100000), Sample(101000, 103000), Sample(103000, 106000) }

FallbackFill == Fill(FallbackSamples)

FallbackSlide == Slide(FallbackSamples)

Fallback == Install(simpleHRCalc(Begin(World)))

NextFallback == FallbackFill \/ FallbackSlide \/ Fallback

SpecFallback == Init /\ [][NextFallback]_vars

---------------------------------------------------------------------------
(* Specification SpecFilter: the two filters, each alone, on every window  *)
(* a fill can leave; the band-pass also on a smoothed window.              *)
FilterSamples ==
    { Sample(100000, 100001), Sample(103001, 106000), Sample(101000, 103004) }

FilterFill == Fill(FilterSamples)

\* The loop filters a window only after the acquisition reported success.
Filled ==
    /\ calls = <<"fillInitialBuffer">>
    /\ Len(reads) = MY_BUFFER_SIZE
    /\ reads[MY_BUFFER_SIZE].ok

Smooth ==
    /\ Filled
    /\ Install(applySmoothingToBuffers(Begin(World)))

BandPass ==
    /\ Filled \/ calls = <<"applySmoothingToBuffers">>
    /\ Install(bandPassFilterBuffers(Begin(World)))

NextFilter == FilterFill \/ Smooth \/ BandPass

SpecFilter == InitGate /\ [][NextFilter]_vars

---------------------------------------------------------------------------
(* Specification SpecEstimator: calculateHRSpO2 on raw and on conditioned  *)
(* windows.  Condition is the pre-processing of part_000:138-139, run once *)
(* on a freshly acquired window.                                           *)
Answer(hr, vhr, sp, vsp) ==
    [n_hr |-> hr, valid_hr |-> vhr, n_spo2 |-> sp, valid_spo2 |-> vsp]

EstimatorSamples ==
    { Sample(100000, 100001), Sample(103001, 106000), Sample(19999, 250000) }

EstimatorAnswers == { Answer(70, TRUE, 98, TRUE), Answer(-999, FALSE, -999, FALSE) }

Condition ==
    /\ calls # << >>
    /\ calls[1] \in {"fillInitialBuffer", "updateSlidingWindow"}
    /\ Install(bandPassFilterBuffers(applySmoothingToBuffers(Begin(World))))

Estimate(A) ==
    /\ hrIndex < MaxHrIndex
    /\ \E alg \in A : Install(calculateHRSpO2(Begin(World), alg))

EstimatorFill == Fill(EstimatorSamples)

EstimatorRun == Estimate(EstimatorAnswers)

NextEstimator == EstimatorFill \/ Condition \/ EstimatorRun

SpecEstimator == InitGate /\ [][NextEstimator]_vars

---------------------------------------------------------------------------
(* Specification SpecStabilizer: the HR history under every sequence of    *)
(* answers of the algorithm and of soft resets.                            *)
StabilizerAnswers ==
    { Answer(h, TRUE, 98, TRUE) : h \in {39, 40, 70, 72, 74, 95, 200, 201} }
      \cup { Answer(70, FALSE, 98, TRUE), Answer(201, TRUE, 101, TRUE) }
      \cup { Answer(70, FALSE, sp, TRUE) : sp \in {69, 70, 100, 101} }
      \cup { Answer(70, FALSE, 98, FALSE) }

InitStabilizer == Booted(0)

StabilizerRun == Estimate(StabilizerAnswers)

SoftReset ==
    \E beginOk \in BOOLEAN : Install(softReset(Begin(World), beginOk))

NextStabilizer == StabilizerRun \/ SoftReset

SpecStabilizer == InitStabilizer /\ [][NextStabilizer]_vars

---------------------------------------------------------------------------
(* Specification SpecDrive: the emitters under the gain controller and     *)
(* soft resets, on every window a fill of the gain controller's samples    *)
(* can leave.                                                              *)
DriveFill == Fill(GainSamples)

NextDrive == DriveFill \/ CheckQuality \/ SoftReset

SpecDrive == InitGate /\ [][NextDrive]_vars

---------------------------------------------------------------------------
(* Specification SpecLockout: cycle after cycle with the gate trusted, so  *)
(* that every cycle reaches calculateHRSpO2.  cycleCount is kept as the    *)
(* residue the loop uses; the estimates stop once the cursor reaches       *)
(* MaxHrIndex.                                                             *)
LockoutAnswers ==
    { Answer(h, TRUE, 98, TRUE) : h \in {70, 72, 95} }

TrustedCycle ==
    /\ hrIndex < MaxHrIndex
    /\ \E alg \in LockoutAnswers :
          \E w \in { [calculateHRSpO2(Begin(World), alg)
                         EXCEPT !.cycleCount = (@ + 1) % CYCLE_LOG_PERIOD] } :
             Install(w)

\* The framework calls loop() again and again: the cycle is weakly fair.
SpecLockout == InitStabilizer /\ [][TrustedCycle]_vars /\ WF_vars(TrustedCycle)

---------------------------------------------------------------------------
(* loop() of part_011: the errorCount recovery policy.  One action is one  *)
(* iteration.  S: the samples the source may deliver, A: the answers of    *)
(* the vitals algorithm.                                                   *)

\* (a cycle that starts without the heartbeat)
startCycleSilent(w) == [w EXCEPT !.cycleCount = @ + 1]

\* startCycle()
startCycle(w) == [feedWatchdog(w) EXCEPT !.cycleCount = @ + 1]

\* showNoSignal()
showNoSignal(w) == updateMetrics(w, 0, 0, FALSE, FALSE)

\* Lines 105-111: fill on the first run (firstRun is cleared whatever the
\* outcome), slide otherwise.
Acquire(w, rd) ==
    IF w.firstRun
    THEN LET f == fillInitialBuffer(w, rd)
         IN  [w |-> [f.w EXCEPT !.firstRun = FALSE], ret |-> f.ret]
    ELSE updateSlidingWindow(w, rd)

ReadsWanted(w) == IF w.firstRun THEN MY_BUFFER_SIZE ELSE SLIDING_ADDITIONS

\* (the reset taken as soon as the count reaches the threshold)
ReachedErrorLimit(n) == n >= MAX_ERRORS

\* Line 116: if (errorCount > 8)
TooManyErrors(n) == n > MAX_ERRORS

\* Lines 113-124: the acquisition failed.
Recover(w, beginOk) ==
    LET w1 == [w EXCEPT !.errorCount = @ + 1]
    IN  IF TooManyErrors(w1.errorCount)
        THEN showNoSignal([softReset(w1, beginOk)
                              EXCEPT !.errorCount = 0, !.firstRun = TRUE])
        ELSE showNoSignal(w1)

\* (the counter left alone after a successful acquisition)
KeepErrors(w) == w

\* Line 127: errorCount = 0;
ClearErrors(w) == [w EXCEPT !.errorCount = 0]

\* Lines 137-159: estimate, show, feed the watchdog.
Report(w, alg) ==
    LET c == calculateHRSpO2(w, alg)
    IN  feedWatchdog(updateMetrics(c, c.heartRate, c.spo2,
                                   c.validHeartRate, c.validSpo2))

\* Lines 100-160 linked with the sensor manager of src/src/sensor.cpp or,
\* earlier, with that of part_005.
LoopErrorCountWith(S, A, earlier) ==
    /\ cycleCount < MaxCycles
    /\ LET w0 == startCycle(Begin(World))
       IN  \E rd \in Answers(S, ReadsWanted(w0), samplesLeft) :
              LET acq == Acquire(w0, rd)
              IN  IF ~acq.ret
                  THEN \E beginOk \in BOOLEAN : Install(Recover(acq.w, beginOk))
                  ELSE LET sm  == applySmoothingToBuffers(ClearErrors(acq.w))
                           chk == IF earlier
                                  THEN checkSignalQualityTwoCycles(sm)
                                  ELSE checkSignalQuality(sm)
                       IN  IF ~chk.ret
                           THEN Install(showNoSignal(chk.w))
                           ELSE \E alg \in A : Install(Report(chk.w, alg))

LoopErrorCount(S, A) == LoopErrorCountWith(S, A, FALSE)

---------------------------------------------------------------------------
(* loop() of part_000: the build with the band-pass filter and the         *)
(* consecutiveGoodCycles hysteresis.                                       *)

\* showNoFingerMessage()
showNoFingerMessage(w) == updateMetrics(w, 0, 0, FALSE, FALSE)

\* (the gate's answer ignored)
GateIgnored(chk) == TRUE

\* Line 144: if (!sensor.checkSignalQuality()) ... return;
GatePassed(chk) == chk.ret

\* Lines 144-185 on the gate's outcome chk: hysteresis, estimate, display.
Hysteresis(chk, A) ==
    IF ~GatePassed(chk)
    THEN Install(showNoFingerMessage(
                    [chk.w EXCEPT !.consecutiveGoodCycles = 0]))
    ELSE LET w1 == [chk.w EXCEPT !.consecutiveGoodCycles = U8(@ + 1)]
         IN  IF w1.consecutiveGoodCycles < CONSECUTIVE_VALID_REQUIRED
             THEN Install(updateMetrics(w1, 0, 0, FALSE, FALSE))
             ELSE \E alg \in A :
                     LET c == calculateHRSpO2(w1, alg)
                     IN  Install(updateMetrics(c, c.heartRate, c.spo2,
                                     c.validHeartRate, c.validSpo2))

\* Lines 138-185: pre-processing, gate, hysteresis, estimate, display.
Process(w, A) ==
    Hysteresis(checkSignalQuality(
                   bandPassFilterBuffers(applySmoothingToBuffers(w))), A)

\* Lines 92-120: the first run.
Prime(w, rd, A) ==
    LET f == fillInitialBuffer(updateMetrics(w, 0, 0, FALSE, FALSE), rd)
    IN  IF ~f.ret
        THEN \E beginOk \in BOOLEAN :
                Install([softReset(f.w, beginOk) EXCEPT !.firstRun = TRUE])
        ELSE LET chk == checkSignalQuality(f.w)
             IN  IF ~chk.ret
                 THEN Install([updateMetrics(chk.w, 0, 0, FALSE, FALSE)
                                  EXCEPT !.firstRun = FALSE,
                                         !.consecutiveGoodCycles = 0])
                 ELSE Process([chk.w EXCEPT !.firstRun = FALSE], A)

\* Lines 124-133: the sliding update.
Update(w, rd, A) ==
    LET u == updateSlidingWindow(w, rd)
    IN  IF ~u.ret
        THEN Install(showNoFingerMessage(
                        [u.w EXCEPT !.consecutiveGoodCycles = 0]))
        ELSE Process(u.w, A)

\* Lines 92-185 once the cycle has started.
GoodCyclesBody(w0, S, A) ==
    \E rd \in Answers(S, ReadsWanted(w0), samplesLeft) :
       IF w0.firstRun THEN Prime(w0, rd, A) ELSE Update(w0, rd, A)

LoopGoodCycles(S, A) ==
    /\ cycleCount < MaxGoodCycles
    /\ GoodCyclesBody(startCycle(Begin(World)), S, A)

\* loop() called again and again without end.  The code uses cycleCount only
\* as cycleCount % 10 (lines 82 and 177): the counter is kept as that
\* residue.
LoopForever(S, A) ==
    GoodCyclesBody([startCycle(Begin(World))
                       EXCEPT !.cycleCount = @ % CYCLE_LOG_PERIOD], S, A)

---------------------------------------------------------------------------
(* Specification SpecPolling: readSampleWithTimeout step by step.  The     *)
(* read notes start = millis() and polls particleSensor.available(); each  *)
(* pass of the loop that finds no sample compares millis() - start with    *)
(* SAMPLE_TIMEOUT_MS.  elapsed is millis() - start; the clock's progress   *)
(* is the action Tick.  fillInitialBuffer and updateSlidingWindow are the  *)
(* loops around the read: polling stays true from the call to its return.  *)

\* (a loop that never gives up)
TimeoutNever(e) == FALSE

\* Line 277: millis() - start > SAMPLE_TIMEOUT_MS
TimeoutElapsed(e) == e > SAMPLE_TIMEOUT_MS

\* Line 273: unsigned long start = millis();
BeginRead(w) == [w EXCEPT !.polling = TRUE, !.elapsed = 0]

\* The entry the references of the current read point at: redBuffer[i] in
\* the fill (line 71), redBuffer[MY_BUFFER_SIZE-1] in the slide (line 89).
ReadTarget(w) == IF w.firstRun THEN Len(w.reads) ELSE MY_BUFFER_SIZE - 1

\* The loop's next iteration: in the slide the memmove comes first.
NextRead(w) ==
    IF w.firstRun
    THEN BeginRead(w)
    ELSE BeginRead([w EXCEPT !.redBuffer = ShiftLeft(@),
                             !.irBuffer = ShiftLeft(@)])

\* The call returns to loop(), which clears firstRun after a fill.
Returned(w) == [w EXCEPT !.polling = FALSE, !.firstRun = FALSE]

StartFill ==
    /\ ~polling
    /\ firstRun
    /\ Install(NextRead(Called(Begin(World), "fillInitialBuffer")))

StartSlide ==
    /\ ~polling
    /\ ~firstRun
    /\ Install(NextRead(Called(Begin(World), "updateSlidingWindow")))

\* available() answers true: lines 284-288, then the loop's next iteration
\* or the return of true.
SampleReady(S) ==
    /\ polling
    /\ samplesLeft > 0
    /\ \E s \in S :
          LET r == readSampleWithTimeout(World, ReadTarget(World), s).w
          IN  IF Len(r.reads) >= ReadsWanted(r)
              THEN Install(Returned(r))
              ELSE Install(NextRead(r))

\* Lines 277-280: no sample and the time is up: return false, which the
\* enclosing loop returns at once.
PollTimeout ==
    /\ polling
    /\ TimeoutElapsed(elapsed)
    /\ Install(Returned(
           readSampleWithTimeout(World, ReadTarget(World), TimedOut).w))

\* One millisecond passes while the loop polls.
Tick ==
    /\ polling
    /\ elapsed <= SAMPLE_TIMEOUT_MS
    /\ Install([World EXCEPT !.elapsed = @ + 1])

PollSamples == { Sample(100000, 100000), Sample(103000, 106000) }

PollSample == SampleReady(PollSamples)

NextPolling == StartFill \/ StartSlide \/ PollSample \/ PollTimeout \/ Tick

\* The clock advances and the polling loop keeps running.
SpecPolling ==
    /\ Init
    /\ [][NextPolling]_vars
    /\ WF_vars(Tick)
    /\ WF_vars(PollTimeout)

---------------------------------------------------------------------------
(* Specifications SpecRecovery (part_011) and SpecCycle (part_000).  The   *)
(* source delivers at most LoopBudget samples in all and times out at      *)
(* will.                                                                   *)
LoopSamples == { Sample(230000, 230000), Sample(130000, 130000) }

LoopAnswers == { Answer(70, TRUE, 98, TRUE), Answer(95, TRUE, 60, TRUE) }

InitLoop == Booted(MY_BUFFER_SIZE + SLIDING_ADDITIONS)

RecoveryCycle == LoopErrorCount(LoopSamples, LoopAnswers)

SpecRecovery == InitLoop /\ [][RecoveryCycle]_vars

\* The part_011 loop with the gate of part_005.
TickCycle == LoopErrorCountWith(LoopSamples, LoopAnswers, TRUE)

SpecTicks == InitLoop /\ [][TickCycle]_vars

GoodCyclesCycle == LoopGoodCycles(LoopSamples, LoopAnswers)

SpecCycle == InitLoop /\ [][GoodCyclesCycle]_vars

\* Specification SpecHysteresis: the hysteresis of part_000 over cycle after
\* cycle, long enough for the 8-bit counter to come round.  The gate's
\* verdict on the cycle's window is the input; the algorithm flags no heart
\* rate, so the HR history stays as it is.
HysteresisAnswers ==
    { Answer(70, FALSE, 98, TRUE), Answer(-999, FALSE, -999, FALSE) }

\* The gate having answered good on this cycle's window.
GateOutcome(w, good) ==
    [w   |-> [Called(w, "checkSignalQuality") EXCEPT !.gate = Append(@, good)],
     ret |-> good]

JudgedCycle ==
    \E good \in BOOLEAN :
       Hysteresis(GateOutcome([startCycle(Begin(World))
                                  EXCEPT !.cycleCount = @ % CYCLE_LOG_PERIOD],
                              good),
                  HysteresisAnswers)

SpecHysteresis == InitStabilizer /\ [][JudgedCycle]_vars

\* The part_000 loop without end: the framework calls loop() for ever, the
\* source delivers at most one window of samples and then nothing.
EndlessCycle == LoopForever(LoopSamples, LoopAnswers)

SpecEndless == InitGate /\ [][EndlessCycle]_vars /\ WF_vars(EndlessCycle)

---------------------------------------------------------------------------
(* Observations used by the properties.                                    *)
DidCall(name) == \E k \in 1..Len(calls) : calls[k] = name

WillHaveCalled(name) == \E k \in 1..Len(calls') : calls'[k] = name

Values(buf) == { buf[i] : i \in Idx }

SetMin(S) == CHOOSE m \in S : \A x \in S : m <= x

SetMax(S) == CHOOSE m \in S : \A x \in S : m >= x

---------------------------------------------------------------------------
(* Properties of the gain controller, the buffer and the gate.             *)

\* C1: after init and any number of checkSignalQuality calls the drive level
\* currentLedBrightness lies within [floor, ceiling] = [20, 120].
LedWithinBounds ==
    currentLedBrightness \in LED_FLOOR..LED_CEILING

SlideSucceeded ==
    /\ calls = <<"updateSlidingWindow">>
    /\ Len(reads) = SLIDING_ADDITIONS
    /\ reads[SLIDING_ADDITIONS].ok

\* C4: a successful updateSlidingWindow on window w with fresh samples
\* s1..sc leaves, in each channel, w[c..N-1] followed by s1..sc: the c oldest
\* entries are gone, the c samples are the tail, the length is still N.
SlideEvictsOldest ==
    [][ SlideSucceeded' =>
          LET keep == MY_BUFFER_SIZE - SLIDING_ADDITIONS
          IN  /\ DOMAIN irBuffer' = Idx
              /\ DOMAIN redBuffer' = Idx
              /\ \A k \in Idx :
                    IF k < keep
                    THEN /\ irBuffer'[k] = irBuffer[k + SLIDING_ADDITIONS]
                         /\ redBuffer'[k] = redBuffer[k + SLIDING_ADDITIONS]
                    ELSE /\ irBuffer'[k] = reads'[k - keep + 1].ir
                         /\ redBuffer'[k] = reads'[k - keep + 1].red ]_vars

\* A slide succeeded on a window that a fill had primed (no sample is 0, the
\* initial content of the window).
SlidPrimedWindow ==
    /\ SlideSucceeded
    /\ \A k \in Idx : irBuffer[k] # 0 /\ redBuffer[k] # 0

FillSucceeded ==
    /\ calls = <<"fillInitialBuffer">>
    /\ Len(reads) = MY_BUFFER_SIZE
    /\ reads[MY_BUFFER_SIZE].ok

\* C5: when fillInitialBuffer succeeds each channel holds exactly N entries
\* and entry i is the i-th pair read during the call.
FillStoresReadsInOrder ==
    FillSucceeded =>
        /\ DOMAIN irBuffer = Idx
        /\ DOMAIN redBuffer = Idx
        /\ \A i \in Idx : /\ irBuffer[i] = reads[i + 1].ir
                          /\ redBuffer[i] = reads[i + 1].red

SlideFailed ==
    /\ calls = <<"updateSlidingWindow">>
    /\ ~reads[Len(reads)].ok

\* The samples the source delivered during the current call.
FreshSamples == { reads[j] : j \in { k \in 1..Len(reads) : reads[k].ok } }

\* C16: when updateSlidingWindow fails on a timed-out read, both channels
\* still hold exactly N entries and every entry is a value the channel held
\* before the call or a sample read during the call.
FailedSlideKeepsWindow ==
    [][ SlideFailed' =>
          /\ DOMAIN irBuffer' = Idx
          /\ DOMAIN redBuffer' = Idx
          /\ \A k \in Idx :
                /\ irBuffer'[k] \in
                      Values(irBuffer) \cup { r.ir : r \in FreshSamples' }
                /\ redBuffer'[k] \in
                      Values(redBuffer) \cup { r.red : r \in FreshSamples' } ]_vars

\* A slide on a primed window that stored one sample and then timed out: the
\* window is partially shifted.
SlideFailedHalfway ==
    /\ SlideFailed
    /\ Len(reads) >= 2
    /\ reads[1].ok
    /\ \A k \in Idx : irBuffer[k] # 0 /\ redBuffer[k] # 0

GateRan == calls # << >> /\ calls[1] = "checkSignalQuality"

\* C8: the gate judges the window good iff IR max < 240000, red max < 240000,
\* IR range >= 6000, red range >= 3000 and IR min >= 20000, the extrema being
\* those of all N entries of each channel.
GoodIffFiveConditions ==
    GateRan =>
        ( gate[1] <=>
            /\ SetMax(Values(irBuffer)) < 240000
            /\ SetMax(Values(redBuffer)) < 240000
            /\ SetMax(Values(irBuffer)) - SetMin(Values(irBuffer)) >= 6000
            /\ SetMax(Values(redBuffer)) - SetMin(Values(redBuffer)) >= 3000
            /\ SetMin(Values(irBuffer)) >= 20000 )

GateJudgedGood == GateRan /\ gate[1]

\* The good/bad decision checkSignalQuality takes in state w.
Decision(w) ==
    LET c == checkSignalQuality(w).w IN c.gate[Len(c.gate)]

SameExtrema(ir1, red1, ir2, red2) ==
    /\ SetMin(Values(ir1)) = SetMin(Values(ir2))
    /\ SetMax(Values(ir1)) = SetMax(Values(ir2))
    /\ SetMin(Values(red1)) = SetMin(Values(red2))
    /\ SetMax(Values(red1)) = SetMax(Values(red2))

\* The states the second window of a pair is judged in: any window over the
\* samples, either at the floor of the drive range with a fresh counter and
\* an empty HR history, or at the ceiling with a grown counter and a started
\* history.
Others ==
    { [World EXCEPT !.irBuffer = [i \in Idx |-> f[i].ir],
                    !.redBuffer = [i \in Idx |-> f[i].red],
                    !.currentLedBrightness = IF h = 0 THEN LED_FLOOR
                                                      ELSE LED_CEILING,
                    !.validCycleCount = h * MaxValidCycles,
                    !.hrIndex = h,
                    !.hrHistory = [@ EXCEPT ![0] = 70 * h]] :
        f \in [Idx -> DecisionSamples], h \in {0, 1} }

\* C12: two windows with the same (IR min, IR max, red min, red max) get the
\* same good/bad decision from checkSignalQuality, whatever their other
\* samples, the drive level, the consecutive-good counter and the HR history.
DecisionDependsOnExtremaOnly ==
    GateRan =>
        \A o \in Others :
            SameExtrema(irBuffer, redBuffer, o.irBuffer, o.redBuffer)
                => Decision(o) = gate[1]

\* A window judged good that shares its extrema with a window holding other
\* sample values.
JudgedWindowHasTwin ==
    /\ GateRan
    /\ gate[1]
    /\ currentLedBrightness # LED_CEILING
    /\ \E o \in Others :
          /\ SameExtrema(irBuffer, redBuffer, o.irBuffer, o.redBuffer)
          /\ Values(o.irBuffer) # Values(irBuffer)
          /\ o.currentLedBrightness = LED_CEILING

---------------------------------------------------------------------------
(* Properties of the estimator and the stabiliser.                         *)
RECURSIVE SeqSum(_)
SeqSum(q) == IF q = << >> THEN 0 ELSE Head(q) + SeqSum(Tail(q))

\* The last n elements of q.
LastN(q, n) == SubSeq(q, Len(q) - n + 1, Len(q))

\* The mean of integers truncated toward zero.
TruncatedMean(total, n) ==
    IF total >= 0 THEN total \div n ELSE -((-total) \div n)

ChannelSum(buf) == SeqSum([k \in 1..MY_BUFFER_SIZE |-> buf[k - 1]])

Estimated == calls = <<"calculateHRSpO2">>

\* C3: calculateHRSpO2 hands the algorithm each channel minus its truncated
\* mean and leaves both channel buffers exactly as they were before the call.
DcRemovalRoundTrip ==
    [][ Estimated' =>
          /\ irBuffer' = irBuffer
          /\ redBuffer' = redBuffer
          /\ \A i \in Idx :
                /\ algIn'[1].ir[i] = irBuffer[i]
                       - TruncatedMean(ChannelSum(irBuffer), MY_BUFFER_SIZE)
                /\ algIn'[1].red[i] = redBuffer[i]
                       - TruncatedMean(ChannelSum(redBuffer), MY_BUFFER_SIZE) ]_vars

\* The estimator ran on a window whose means are not integers, so the
\* division truncated.
EstimatedWithRoundedMean ==
    /\ Estimated
    /\ ChannelSum(irBuffer) % MY_BUFFER_SIZE # 0
    /\ ChannelSum(redBuffer) % MY_BUFFER_SIZE # 0
    /\ \E i \in Idx : algIn[1].ir[i] # 0

\* The estimator's candidate of this call passed the plausibility bounds.
Candidate == algIn[1].ans.n_hr

CandidatePlausible ==
    /\ Estimated
    /\ algIn[1].ans.valid_hr
    /\ Candidate >= 40
    /\ Candidate <= 200

\* C6: with a non-empty history, a candidate more than MAX_HR_JUMP away from
\* the most recently accepted value is marked invalid and leaves the history
\* entries and the write cursor unchanged.
JumpRejected ==
    [][ ( /\ CandidatePlausible'
          /\ accepted # << >>
          /\ Abs(Candidate' - accepted[Len(accepted)]) > 20 )
        => /\ ~validHeartRate'
           /\ hrHistory' = hrHistory
           /\ hrIndex' = hrIndex
           /\ accepted' = accepted ]_vars

\* History [70], candidate 95: rejected, history still [70].
Rejected95After70 ==
    /\ CandidatePlausible
    /\ Candidate = 95
    /\ accepted = <<70>>
    /\ hrHistory[0] = 70
    /\ hrIndex = 1
    /\ ~validHeartRate

\* C7: from an empty history, while every candidate is within MAX_HR_JUMP of
\* its predecessor, the smoothed output after each candidate is the truncated
\* mean of the history entries held at that moment, i.e. of the last
\* min(n, HR_HISTORY_SIZE) candidates.
SmoothedIsMeanOfHeld ==
    ( /\ CandidatePlausible
      /\ accepted # << >>
      /\ \A k \in 1..(Len(accepted) - 1) :
            Abs(accepted[k + 1] - accepted[k]) <= 20
      /\ accepted[Len(accepted)] = Candidate
      /\ validHeartRate )
    => LET n == Min2(Len(accepted), HR_HISTORY_SIZE)
       IN  heartRate = SeqSum(LastN(accepted, n)) \div n

\* 70, 72, 74 gave 70, 71, 72: the third output.
Smoothed707274 ==
    /\ CandidatePlausible
    /\ accepted = <<70, 72, 74>>
    /\ validHeartRate
    /\ heartRate = 72

FellBack == calls = <<"simpleHRCalc">>

\* The entries of the infrared window that simpleHRCalc counts: those from
\* index 2 to N - 2 that are strictly greater than both neighbours.
CountedMaxima ==
    { i \in 2..(MY_BUFFER_SIZE - 2) :
        irBuffer[i - 1] < irBuffer[i] /\ irBuffer[i] > irBuffer[i + 1] }

\* C13: simpleHRCalc sets heartRate = c * (60 * SAMPLE_RATE / N), the integer
\* division done first, c being its count of local maxima, and marks the
\* result valid always, also outside [40, 200].
FallbackScaling ==
    FellBack =>
        /\ heartRate = Cardinality(CountedMaxima)
                           * ((60 * SAMPLE_RATE) \div MY_BUFFER_SIZE)
        /\ validHeartRate

\* The fallback counted a maximum and reported a rate above 200 as valid.
FallbackAbove200Valid ==
    /\ FellBack
    /\ CountedMaxima # {}
    /\ heartRate > 200
    /\ validHeartRate

\* C11: after every calculateHRSpO2, validHeartRate is true only if the
\* algorithm flagged its HR valid and the HR lies in [40, 200], and validSpo2
\* is true exactly if the algorithm flagged its SpO2 valid and the SpO2 lies in
\* [70, 100]; an out-of-range value is invalid whatever the algorithm's flag.
PlausibilityBounds ==
    Estimated =>
        LET ans == algIn[1].ans
        IN  /\ validHeartRate =>
                  (ans.valid_hr /\ ans.n_hr >= 40 /\ ans.n_hr <= 200)
            /\ validSpo2 <=>
                  (ans.valid_spo2 /\ ans.n_spo2 >= 70 /\ ans.n_spo2 <= 100)
            /\ (~validSpo2) => spo2 = 0

\* The algorithm flagged 201 bpm and 101 % as valid; both were reported invalid.
OutOfRangeReportedInvalid ==
    /\ Estimated
    /\ algIn[1].ans = Answer(201, TRUE, 101, TRUE)
    /\ ~validHeartRate
    /\ ~validSpo2

---------------------------------------------------------------------------
(* Properties of the loops.                                                *)

\* No read has been answered with a sample since startup.
EveryReadTimedOut == samplesLeft = MY_BUFFER_SIZE + SLIDING_ADDITIONS

TimesCalled(name) == Cardinality({k \in 1..Len(calls) : calls[k] = name})

\* C2 as stated: with a source whose every read times out, the soft reset is
\* performed in the cycle in which the failure count reaches 8.
ResetWhenCountReachesEight ==
    (EveryReadTimedOut /\ cycleCount = 8) => DidCall("softReset")

\* C2 as amended: with a source whose every read times out, the first soft
\* reset is performed in the cycle in which the failure count exceeds 8 (the
\* ninth failed cycle), exactly once, the failure counter is then zero and the
\* next cycle runs fillInitialBuffer.
ResetWhenCountExceedsEight ==
    /\ [](EveryReadTimedOut =>
            /\ cycleCount < 9 => (~DidCall("softReset") /\ errorCount = cycleCount)
            /\ cycleCount = 9 => /\ TimesCalled("softReset") = 1
                                 /\ errorCount = 0
                                 /\ firstRun)
    /\ [][DidCall("softReset") => WillHaveCalled("fillInitialBuffer")]_vars

NinthFailureReset ==
    /\ EveryReadTimedOut
    /\ cycleCount = 9
    /\ DidCall("softReset")

\* The cycle ran fillInitialBuffer and a read of it timed out.
FillFailed ==
    /\ DidCall("fillInitialBuffer")
    /\ ~reads[Len(reads)].ok

\* C14: the orchestrator runs updateSlidingWindow only if the most recent
\* fillInitialBuffer succeeded: the cycle after a failed fill is a priming
\* cycle again, so a window never fully filled is never slid or processed.
FailedFillPrimesAgain ==
    [][ FillFailed =>
          /\ WillHaveCalled("fillInitialBuffer")
          /\ ~WillHaveCalled("updateSlidingWindow") ]_vars

\* C15: the failure counter goes up by exactly one in each cycle whose
\* acquisition times out and is zero after any cycle whose acquisition
\* succeeds; a soft reset happens only in a failed cycle that found the
\* counter at the threshold, i.e. after an uninterrupted run of failed cycles,
\* and leaves the counter at zero.
FailuresCountedConsecutively ==
    [][ cycleCount' # cycleCount =>
          IF reads'[Len(reads')].ok
          THEN /\ errorCount' = 0
               /\ ~WillHaveCalled("softReset")
          ELSE IF WillHaveCalled("softReset")
               THEN errorCount = MAX_ERRORS /\ errorCount' = 0
               ELSE errorCount' = errorCount + 1 /\ errorCount < MAX_ERRORS ]_vars

\* A failed fill (the source still holds samples after a full slide) followed
\* by a successful slide: the counter is back at zero.
FailureRunInterrupted ==
    /\ cycleCount = 2
    /\ DidCall("updateSlidingWindow")
    /\ reads[Len(reads)].ok
    /\ samplesLeft > 0
    /\ errorCount = 0

\* C17: readSampleWithTimeout always returns: without a sample it fails once
\* the elapsed time exceeds SAMPLE_TIMEOUT_MS (the clock advancing), and not
\* before; so fillInitialBuffer ends after at most N reads and
\* updateSlidingWindow after at most SLIDING_ADDITIONS reads.
ReadsTerminate ==
    /\ [](Len(reads) <= IF DidCall("fillInitialBuffer")
                         THEN MY_BUFFER_SIZE ELSE SLIDING_ADDITIONS)
    /\ []((reads # << >> /\ ~reads[Len(reads)].ok)
             => (~polling /\ elapsed > SAMPLE_TIMEOUT_MS))
    /\ (polling ~> ~polling)

\* A fill that stored a sample and then waited out the whole time-out.
ReadGaveUp ==
    /\ ~polling
    /\ DidCall("fillInitialBuffer")
    /\ Len(reads) = 2
    /\ ~reads[2].ok
    /\ elapsed = SAMPLE_TIMEOUT_MS + 1

\* C9 as stated: in every cycle in which the quality gate runs, the
\* consecutive-good counter goes up by exactly one if the cycle is judged
\* good and to zero if it is judged bad, and the gate reports trusted iff the
\* counter is then at least the hysteresis threshold.
GateCountsOncePerCycle ==
    [][ WillHaveCalled("checkSignalQuality") =>
          /\ validCycleCount' =
                IF gate'[Len(gate')] THEN validCycleCount + 1 ELSE 0
          /\ gate'[Len(gate')] <=> (validCycleCount' >= 1) ]_vars

\* The place of the last call of name in calls (0: not called).
LastCall(name) ==
    IF DidCall(name)
    THEN SetMax({k \in 1..Len(calls) : calls[k] = name})
    ELSE 0

\* C10: calculateHRSpO2 is invoked in a cycle only after the quality gate
\* reported trusted in that cycle; a cycle whose gate is untrusted (bad window
\* or hysteresis not met) runs no estimation.
EstimateOnlyWhenTrusted ==
    DidCall("calculateHRSpO2") =>
        /\ TimesCalled("calculateHRSpO2") = 1
        /\ LastCall("checkSignalQuality") > 0
        /\ LastCall("checkSignalQuality") < LastCall("calculateHRSpO2")
        /\ \A k \in 1..Len(gate) : gate[k]
        /\ validCycleCount >= 1
        /\ consecutiveGoodCycles >= CONSECUTIVE_VALID_REQUIRED

EstimatedInCycle ==
    /\ DidCall("calculateHRSpO2")
    /\ DidCall("updateSlidingWindow")

\* The place of the first call of name in calls (0: not called).
FirstCall(name) ==
    IF DidCall(name)
    THEN SetMin({k \in 1..Len(calls) : calls[k] = name})
    ELSE 0

\* C18: in every Acquiring tick that runs to the end the stages run in the
\* order slide/append, gain adjust, filter, quality gate, estimate (with the
\* stabiliser), emit; the gain adjustment, which is the first part of
\* checkSignalQuality, inspects the window before the filters modify it.
StagesInOrder ==
    (DidCall("updateSlidingWindow") /\ DidCall("calculateHRSpO2")) =>
        /\ LastCall("updateSlidingWindow") < FirstCall("checkSignalQuality")
        /\ FirstCall("checkSignalQuality") < FirstCall("applySmoothingToBuffers")
        /\ FirstCall("applySmoothingToBuffers") < FirstCall("bandPassFilterBuffers")
        /\ LastCall("bandPassFilterBuffers") < LastCall("checkSignalQuality")
        /\ LastCall("checkSignalQuality") < FirstCall("calculateHRSpO2")
        /\ LastCall("calculateHRSpO2") < LastCall("updateMetrics")

\* C19: the gain controller's action follows from the infrared minimum and
\* maximum alone: it lowers the drive level iff IR max exceeds the saturation
\* bound or the IR range exceeds the overdrive bound; otherwise it raises it
\* iff IR min is below the weak-signal bound or the IR range is below its
\* floor; otherwise the level is unchanged and no hardware write happens.
GainFollowsInfrared ==
    [][ GateRan' =>
          LET irMax == SetMax(Values(irBuffer))
              irMin == SetMin(Values(irBuffer))
              lower == irMax > 240000 \/ irMax - irMin > 200000
              raise == irMin < 20000 \/ irMax - irMin < 6000
              wrote == WillHaveCalled("setPulseAmplitudeIR")
          IN  IF lower
              THEN wrote /\ currentLedBrightness' <= currentLedBrightness
              ELSE IF raise
              THEN wrote /\ currentLedBrightness' >= currentLedBrightness
              ELSE ~wrote /\ currentLedBrightness' = currentLedBrightness
        ]_vars

\* C20: every loop iteration hands exactly one result to the display: the
\* computed one on a trusted cycle, the invalid one (0, 0, false, false) on a
\* cycle aborted by a time-out or ended by an untrusted gate.
OneResultPerCycle ==
    cycleCount > 0 =>
        /\ Len(shown) = 1
        /\ shown[1] =
              IF DidCall("calculateHRSpO2")
              THEN [heartRate |-> heartRate, spo2 |-> spo2,
                    validHeartRate |-> validHeartRate, validSpo2 |-> validSpo2]
              ELSE [heartRate |-> 0, spo2 |-> 0,
                    validHeartRate |-> FALSE, validSpo2 |-> FALSE]

\* The cycle ran the quality gate and ended without an estimate.
EndedUntrusted ==
    /\ DidCall("checkSignalQuality")
    /\ ~DidCall("calculateHRSpO2")

\* C21 as stated: a cycle that ends with the gate untrusted leaves the
\* acquisition-failure counter, the HR history entries and the HR history
\* cursor as they were before the cycle.
UntrustedCycleKeepsCounters ==
    [][ EndedUntrusted' =>
          /\ errorCount' = errorCount
          /\ hrHistory' = hrHistory
          /\ hrIndex' = hrIndex ]_vars

\* C21 as amended: a cycle that ends with the gate untrusted leaves the HR
\* history entries and cursor as they were; its acquisition succeeded, so the
\* acquisition-failure counter is zero after it whatever it was before.
UntrustedCycleKeepsHistory ==
    [][ EndedUntrusted' =>
          /\ errorCount' = 0
          /\ hrHistory' = hrHistory
          /\ hrIndex' = hrIndex ]_vars

\* The fill of cycle 1 failed (the source still holds samples after a full
\* slide); cycle 2 slid successfully and ended untrusted.
UntrustedAfterFailure ==
    /\ EndedUntrusted
    /\ cycleCount = 2
    /\ samplesLeft > 0
    /\ errorCount = 0

\* C22: after every softReset, whether or not the re-initialisation inside
\* it succeeds, the HR history is empty (cursor 0, every entry 0) and the
\* consecutive-good quality counter is 0.
ResetClearsState ==
    DidCall("softReset") =>
        /\ hrIndex = 0
        /\ \A i \in 0..(HR_HISTORY_SIZE - 1) : hrHistory[i] = 0
        /\ validCycleCount = 0

---------------------------------------------------------------------------
(* Properties of the filters.                                              *)
SmoothRan == calls = <<"applySmoothingToBuffers">>

\* The truncated mean of buf[lo..hi].
MeanOver(buf, lo, hi) ==
    TruncatedMean(SeqSum([k \in 1..(hi - lo + 1) |-> buf[lo + k - 1]]),
                  hi - lo + 1)

\* C23: applySmoothingToBuffers replaces, for every index i and for both
\* channels alike, sample i with the truncated mean of the samples the
\* channel held before the call at indices max(0, i-W+1)..i.
SmoothingUsesOldSamples ==
    [][ SmoothRan' =>
          \A i \in Idx :
              LET lo == IF i - SMA_WINDOW_SIZE + 1 > 0
                        THEN i - SMA_WINDOW_SIZE + 1 ELSE 0
              IN  /\ irBuffer'[i] = MeanOver(irBuffer, lo, i)
                  /\ redBuffer'[i] = MeanOver(redBuffer, lo, i) ]_vars

\* The smoothing ran on a full window whose neighbours differ, the two
\* channels apart.
SmoothedUnevenWindow ==
    /\ SmoothRan
    /\ Len(reads) = 0
    /\ \A i \in Idx : irBuffer[i] # 0
    /\ irBuffer[0] # irBuffer[1]
    /\ irBuffer[1] # irBuffer[2]
    /\ redBuffer[1] # irBuffer[1]

---------------------------------------------------------------------------
(* Properties of the heartbeat.                                            *)

\* C24: every loop iteration feeds the watchdog first, on every path, and
\* an iteration holds at most one acquisition (a fill or a slide) and at
\* most one soft-reset, so no more than that lies between two feeds.
WatchdogFedEveryCycle ==
    cycleCount > 0 =>
        /\ Len(calls) > 0
        /\ calls[1] = "feedWatchdog"
        /\ TimesCalled("fillInitialBuffer")
             + TimesCalled("updateSlidingWindow") <= 1
        /\ TimesCalled("softReset") <= 1

\* A later iteration whose fill timed out and ended in the soft-reset was
\* fed.
FedBeforeReset ==
    /\ cycleCount > 1
    /\ Len(calls) > 0
    /\ calls[1] = "feedWatchdog"
    /\ TimesCalled("fillInitialBuffer") = 1
    /\ TimesCalled("softReset") = 1
    /\ firstRun

---------------------------------------------------------------------------
(* Properties of the gain controller's place in the cycle.                 *)

\* C25 as stated: in every cycle, the priming cycle included, the quality
\* gate with its gain controller is evaluated at most once and the drive
\* level changes by at most one step.
GainOncePerCycle ==
    [][ /\ Cardinality({k \in 1..Len(calls') :
                           calls'[k] = "checkSignalQuality"}) <= 1
        /\ currentLedBrightness' \in
              { currentLedBrightness,
                LedDown(currentLedBrightness),
                LedUp(currentLedBrightness) } ]_vars

---------------------------------------------------------------------------
(* Properties of the band-pass filter.                                     *)
BandPassRan == calls = <<"bandPassFilterBuffers">>

\* The recurrence hp[i] = alpha*hp[i-1] + alpha*(x[i] - x[i-1]),
\* y[i] = beta*hp[i] + (1-beta)*y[i-1] over the window x, with index 0 kept
\* and the integer truncation of every assignment.
RECURSIVE RecurrenceOnInput(_, _, _, _, _)
RecurrenceOnInput(x, y, i, hp, lp) ==
    IF i >= MY_BUFFER_SIZE THEN y
    ELSE LET hp1 == TruncDiv(95 * hp + 95 * (x[i] - x[i - 1]), 100)
             lp1 == TruncDiv(10 * hp1 + 90 * lp, 100)
         IN  RecurrenceOnInput(x, [y EXCEPT ![i] = lp1], i + 1, hp1, lp1)

\* C26 as stated: bandPassFilterBuffers leaves index 0 of each channel
\* unchanged and, for i >= 1, stores y[i] of the recurrence whose high-pass
\* difference term is x[i] - x[i-1], x being the window before the call.
BandPassDifferencesInput ==
    [][ BandPassRan' =>
          /\ irBuffer' =
                RecurrenceOnInput(irBuffer, irBuffer, 1, irBuffer[0], irBuffer[0])
          /\ redBuffer' =
                RecurrenceOnInput(redBuffer, redBuffer, 1,
                                  redBuffer[0], redBuffer[0]) ]_vars

---------------------------------------------------------------------------
(* Properties of the fallback's index range.                               *)

\* The interior entries of the infrared window that are strictly greater
\* than both neighbours.
InteriorMaxima ==
    { i \in 1..(MY_BUFFER_SIZE - 2) :
        irBuffer[i - 1] < irBuffer[i] /\ irBuffer[i] > irBuffer[i + 1] }

\* C27 as stated: simpleHRCalc counts every index i with 1 <= i <= N-2 whose
\* infrared sample is strictly greater than both neighbours and no other
\* index, so the rate it reports is that count times the scale factor.
FallbackCountsEveryInterior ==
    FellBack =>
        heartRate = Cardinality(InteriorMaxima)
                        * ((60 * SAMPLE_RATE) \div MY_BUFFER_SIZE)

---------------------------------------------------------------------------
(* Properties of the circular HR history.                                  *)

\* The history and the cursor against the accepted values: the cursor counts
\* them, the last min(n, K) of them sit in their slots, a slot never written
\* is 0, and an output just accepted is their truncated mean.
HistoryIsLastAccepted ==
    LET n == Len(accepted)
        m == IF n < HR_HISTORY_SIZE THEN n ELSE HR_HISTORY_SIZE
    IN  /\ hrIndex = n
        /\ \A j \in (n - m + 1)..n :
              hrHistory[(j - 1) % HR_HISTORY_SIZE] = accepted[j]
        /\ \A i \in n..(HR_HISTORY_SIZE - 1) : hrHistory[i] = 0
        /\ (CandidatePlausible /\ validHeartRate) =>
              /\ accepted[n] = Candidate
              /\ heartRate = SeqSum(LastN(accepted, m)) \div m

\* One estimate: a plausible candidate within MAX_HR_JUMP of the last
\* accepted value (or the first one) is accepted and moves the cursor by
\* one; every other estimate leaves cursor and history alone.
CursorStep ==
    Estimated' =>
        IF /\ CandidatePlausible'
           /\ \/ accepted = << >>
              \/ Abs(Candidate' - accepted[Len(accepted)]) <= MAX_HR_JUMP
        THEN /\ hrIndex' = hrIndex + 1
             /\ accepted' = Append(accepted, Candidate')
             /\ validHeartRate'
        ELSE /\ hrIndex' = hrIndex
             /\ hrHistory' = hrHistory
             /\ accepted' = accepted
             /\ ~validHeartRate'

\* C28: after n accepted HR values since the history was last initialised
\* it holds exactly the last min(n, K) accepted raw values (an accept beyond
\* K overwrites the oldest), the cursor has advanced by one per accept and
\* by zero per rejection, and the smoothed output is the truncated mean of
\* exactly those min(n, K) values.
HistoryKeepsLastAccepted == []HistoryIsLastAccepted /\ [][CursorStep]_vars

\* The accept after the history was full overwrote the oldest entry.
OldestOverwritten ==
    /\ CandidatePlausible
    /\ validHeartRate
    /\ Len(accepted) = HR_HISTORY_SIZE + 1
    /\ accepted[1] # accepted[HR_HISTORY_SIZE + 1]
    /\ hrHistory[0] = accepted[HR_HISTORY_SIZE + 1]

---------------------------------------------------------------------------
(* Properties of the recovery from a source that has gone silent.          *)

\* C29 as stated: from steady-state acquiring (the window primed, the loop
\* sliding), once every further read times out the loop eventually performs
\* a soft-reset and returns to priming.
SilentSourceEscalates ==
    (~firstRun /\ samplesLeft = 0) ~> (DidCall("softReset") /\ firstRun)

---------------------------------------------------------------------------
(* Properties of a fill that times out.                                    *)

\* C30: fillInitialBuffer returns failure exactly if one of its reads times
\* out (the loop then takes the soft-reset branch, otherwise it goes on to
\* the quality gate); the read that times out is its last one, and the
\* entries at and after the failing index keep the values they had before
\* the call.
FillStopsAtFirstTimeout ==
    [][ WillHaveCalled("fillInitialBuffer") =>
          LET n == Len(reads')
          IN  /\ n >= 1
              /\ n <= MY_BUFFER_SIZE
              /\ \A k \in 1..(n - 1) : reads'[k].ok
              /\ reads'[n].ok => n = MY_BUFFER_SIZE
              /\ (~reads'[n].ok) <=> WillHaveCalled("softReset")
              /\ reads'[n].ok <=> WillHaveCalled("checkSignalQuality")
              /\ (~reads'[n].ok) =>
                    \A i \in (n - 1)..(MY_BUFFER_SIZE - 1) :
                       /\ irBuffer'[i] = irBuffer[i]
                       /\ redBuffer'[i] = redBuffer[i] ]_vars

\* A fill timed out on its first read over a window that an earlier fill
\* had written in part: those entries are still there.
RefillTimedOutAtOnce ==
    /\ FillFailed
    /\ DidCall("softReset")
    /\ Len(reads) = 1
    /\ irBuffer[0] # 0
    /\ irBuffer[1] # 0
    /\ irBuffer[0] # irBuffer[1]

---------------------------------------------------------------------------
(* Properties of the eviction count of a slide.                            *)
SlideRan == calls = <<"updateSlidingWindow">>

\* The number of samples the source delivered during the current call.
Delivered == Cardinality({ k \in 1..Len(reads) : reads[k].ok })

\* C31 as stated: on every call of updateSlidingWindow, a call that fails by
\* timeout included, as many oldest entries are evicted as samples are
\* appended: with m samples read the window is the old one without its m
\* oldest entries, followed by the m samples, and holds no sample twice.
SlideEvictsWhatItAppends ==
    [][ SlideRan' =>
          LET m == Delivered'
          IN  \A k \in Idx :
                 IF k < MY_BUFFER_SIZE - m
                 THEN /\ irBuffer'[k] = irBuffer[k + m]
                      /\ redBuffer'[k] = redBuffer[k + m]
                 ELSE /\ irBuffer'[k] = reads'[k - (MY_BUFFER_SIZE - m) + 1].ir
                      /\ redBuffer'[k] = reads'[k - (MY_BUFFER_SIZE - m) + 1].red
      ]_vars

---------------------------------------------------------------------------
(* Properties of the jump rejection over many cycles.                      *)

\* C32 as stated: if from some cycle on the algorithm returns the same valid
\* heart rate h in [40, 200] in every cycle, the gate being trusted, then
\* cycles reporting validHeartRate = true keep coming: a rejected jump does
\* not lock out valid reporting for ever.
RejectionDoesNotLockOut ==
    \A h \in {70, 72, 95} :
        <>[](CandidatePlausible /\ Candidate = h) => []<>validHeartRate

---------------------------------------------------------------------------
(* Properties of the consecutive-good counter.                             *)

\* The cycle just ended reached the estimate: the orchestrator trusted it.
Trusted == DidCall("calculateHRSpO2")

\* C33 as stated: once the orchestrator has reached trust it stays trusted
\* in every following cycle whose gate check is good; trust is lost only
\* through a bad cycle or an acquisition timeout, never through the 8-bit
\* counter itself.
TrustKeptWhileGood ==
    [][ ( /\ Trusted
          /\ consecutiveGoodCycles >= CONSECUTIVE_VALID_REQUIRED
          /\ gate' # << >>
          /\ \A k \in 1..Len(gate') : gate'[k] )
        => /\ WillHaveCalled("calculateHRSpO2")
           /\ consecutiveGoodCycles' >= CONSECUTIVE_VALID_REQUIRED ]_vars

---------------------------------------------------------------------------
(* Properties of the filters over consecutive cycles.                      *)

\* The cycle just ended filled the window with N delivered samples.
FilledThisCycle ==
    /\ DidCall("fillInitialBuffer")
    /\ Len(reads) = MY_BUFFER_SIZE
    /\ reads[MY_BUFFER_SIZE].ok

\* The N most recent raw samples after the fill read in the cycle just ended
\* and the slide read in the cycle now ending: the fill's without its oldest
\* SLIDING_ADDITIONS, then the slide's.
RecentRaw ==
    [i \in Idx |->
        IF i < MY_BUFFER_SIZE - SLIDING_ADDITIONS
        THEN reads[i + SLIDING_ADDITIONS + 1]
        ELSE reads'[i - (MY_BUFFER_SIZE - SLIDING_ADDITIONS) + 1]]

\* C34 as stated: in steady state the window handed to the quality gate is
\* the filter stage applied once to the N most recent raw samples (here:
\* in the first cycle after the priming cycle, whose reads are at hand).
WindowFilteredOnce ==
    [][ ( /\ FilledThisCycle
          /\ WillHaveCalled("updateSlidingWindow")
          /\ Len(reads') = SLIDING_ADDITIONS
          /\ reads'[SLIDING_ADDITIONS].ok
          /\ WillHaveCalled("checkSignalQuality") )
        => /\ irBuffer' =
                 BandPassed(Smoothed([i \in Idx |-> RecentRaw[i].ir]))
           /\ redBuffer' =
                 BandPassed(Smoothed([i \in Idx |-> RecentRaw[i].red])) ]_vars

---------------------------------------------------------------------------
(* Properties of the two channels side by side.                            *)

\* C35: under fills and slides, successful or failed, the red entry and the
\* infrared entry at every index come from the same sample read (or are
\* both still the initial zero): the channels are written and shifted in
\* lockstep.  The samples of the source differ in both channels, so a pair
\* of entries identifies its sample.
ChannelsInLockstep ==
    \A i \in Idx :
        \/ irBuffer[i] = 0 /\ redBuffer[i] = 0
        \/ \E s \in BufferSamples :
              s.ok /\ irBuffer[i] = s.ir /\ redBuffer[i] = s.red

\* A slide stored a sample and then timed out on a full window of samples
\* that are not all the same: shifted twice, written once.
ShiftedTwiceWrittenOnce ==
    /\ SlideFailed
    /\ Len(reads) = 2
    /\ \A k \in Idx : irBuffer[k] # 0
    /\ irBuffer[0] # irBuffer[MY_BUFFER_SIZE - 1]
    /\ irBuffer[MY_BUFFER_SIZE - 2] = irBuffer[MY_BUFFER_SIZE - 1]

---------------------------------------------------------------------------
(* Properties of the range of the reported rate.                           *)

\* C36: whenever calculateHRSpO2 returns with validHeartRate = true, the
\* smoothed heartRate it reports lies within [40, 200], whatever values
\* were accepted and rejected before and however often the history wrapped.
ReportedRateInRange ==
    (Estimated /\ validHeartRate) =>
        /\ heartRate >= 40
        /\ heartRate <= 200

\* A valid rate reported after the history wrapped, smoothed away from the
\* candidate of the cycle.
SmoothedAfterWrap ==
    /\ Estimated
    /\ validHeartRate
    /\ hrIndex > HR_HISTORY_SIZE
    /\ heartRate # Candidate

---------------------------------------------------------------------------
(* Properties of the emitter drive level.                                  *)

\* The operation now ending wrote a drive level to both emitters.
WroteBothEmitters ==
    /\ WillHaveCalled("setPulseAmplitudeRed")
    /\ WillHaveCalled("setPulseAmplitudeIR")

\* C37: the drive level last written to the red and to the infrared emitter
\* is the stored currentLedBrightness: whenever the stored level changes and
\* whenever an init has set the device up, both emitters are written, with
\* the stored level; a soft-reset leaves the stored (adapted) level as it is
\* and writes that level, not the default of setup().
EmittersFollowStoredLevel ==
    [][ /\ currentLedBrightness' # currentLedBrightness => WroteBothEmitters
        /\ (WillHaveCalled("init") /\ pulseAmplitudeRed' # 0)
              => WroteBothEmitters
        /\ ( WillHaveCalled("setPulseAmplitudeRed")
               \/ WillHaveCalled("setPulseAmplitudeIR") )
              => /\ WroteBothEmitters
                 /\ pulseAmplitudeRed' = currentLedBrightness'
                 /\ pulseAmplitudeIR' = currentLedBrightness'
        /\ WillHaveCalled("softReset")
              => currentLedBrightness' = currentLedBrightness ]_vars

\* A soft-reset whose init succeeded wrote the adapted level.
ResetWroteAdaptedLevel ==
    /\ DidCall("softReset")
    /\ DidCall("setPulseAmplitudeRed")
    /\ currentLedBrightness # LED_BRIGHTNESS_DEFAULT
    /\ pulseAmplitudeRed = currentLedBrightness
    /\ pulseAmplitudeIR = currentLedBrightness

---------------------------------------------------------------------------
(* Properties of the hysteresis over ticks that time out.                  *)

\* C38 as stated, for the threshold 2 of part_005: the gate reports trusted
\* in a cycle (the loop goes on to the estimate) only if this cycle and the
\* cycle before it, a cycle aborted by an acquisition timeout counting as
\* one, were both judged good.
TrustNeedsConsecutiveTicks ==
    [][ WillHaveCalled("calculateHRSpO2") =>
          /\ gate' # << >>
          /\ gate'[Len(gate')]
          /\ gate # << >>
          /\ gate[Len(gate)] ]_vars

=============================================================================
